---- MODULE Spec2Model ----
(***************************************************************************)
(* Notes App backend (backend/main.py): FastAPI handlers over two SQLite   *)
(* tables (users, notes), bcrypt password hashing and JWT bearer tokens.   *)
(*                                                                         *)
(* Spec     : requests are served one at a time; one action per route.     *)
(*            The note routes read only user.id and user.email, so here    *)
(*            every account is registered with one password and one salt.  *)
(* SpecAuth : register and login alone, over all passwords and salts.      *)
(* SpecConc : concurrent POST /auth/register requests; every request is a  *)
(*            lookup step followed by an insert-and-commit step.           *)
(*                                                                         *)
(* Not modelled: created_at / updated_at (no handler reads them), CORS.    *)
(***************************************************************************)
EXTENDS Integers, FiniteSets, Sequences, TLC

VARIABLES
    users,      \* table "users": set of rows [id, email, password_hash]
    notes,      \* table "notes": set of rows [id, title, content, user_id]
    resp,       \* the last request served and the response it got
    issued,     \* history: subjects of the tokens login has issued
    created,    \* history: per caller email, number of POST /notes/ answered 200
    removed,    \* history: per caller email, number of DELETE /notes/{id} answered 200
    gone,       \* history: <<caller email, note id>> of every DELETE answered 200
    goneLive,   \* history: the pairs of gone whose id the caller was not given again
    reg         \* SpecConc: per worker, the register request it is serving

vars == <<users, notes, resp, issued, created, removed, gone, goneLive, reg>>

----------------------------------------------------------------------------
(* Bounds *)

\* successful note creations in one behaviour
MaxCreates == 2

\* concurrent register requests (SpecConc)
NumWorkers == 2

----------------------------------------------------------------------------
(* Input domains *)

Emails == {"a@x.com", "b@x.com"}
BadEmail == "not-an-email"
EmailInputs == Emails \cup {BadEmail}

PasswordInputs == {"secret1", "secret2", "abc"}

Salts == {"s1", "s2"}

\* the passwords and the salt of Spec
NotesPasswordInputs == {"secret1", "abc"}
NotesSalts == {"s1"}

TitleInputs == {"t1", ""}
ContentInputs == {"c1", ""}

NoteIds == 1..MaxCreates

Workers == 1..NumWorkers

\* a bearer token as the request carries it
TokenKinds == {"valid", "missing", "malformed", "tampered", "expired"}
NoSub == ""
NoTok == [kind |-> "missing", sub |-> NoSub]
TokenInputs ==
    {[kind |-> "valid", sub |-> e] : e \in Emails}
        \cup {[kind |-> k, sub |-> NoSub] : k \in TokenKinds \ {"valid"}}

----------------------------------------------------------------------------
(* Password utilities *)

NoHash == [salt |-> "", digest |-> <<"", "">>]

\* pwd_ctx.hash: a salted one-way digest; the salt is drawn by the library
hash_password(p, salt) == [salt |-> salt, digest |-> <<salt, p>>]

verify_password_always(plain, hashed) == TRUE

\* pwd_ctx.verify: recompute the digest of plain under the stored salt
verify_password(plain, hashed) == hashed.digest = <<hashed.salt, plain>>

----------------------------------------------------------------------------
(* Request validation (pydantic schemas) *)

MinPasswordLen == 6

\* EmailStr
ValidEmail(e) == e # BadEmail

\* UserCreate: email: EmailStr, password: constr(min_length=6)
UserCreate(email, pw) == ValidEmail(email) /\ Len(pw) >= MinPasswordLen

\* NoteIn: title: constr(min_length=1), content: constr(min_length=1)
NoteIn(title, content) == Len(title) >= 1 /\ Len(content) >= 1

\* UserOut: id, email (no password_hash)
UserOut(u) == [id |-> u.id, email |-> u.email]

----------------------------------------------------------------------------
(* Tables and queries *)

NoUser == [id |-> 0, email |-> "", password_hash |-> NoHash]
NoNote == [id |-> 0, title |-> "", content |-> "", user_id |-> 0]

SetMax(S) == CHOOSE m \in S : \A x \in S : x <= m

\* INTEGER PRIMARY KEY of SQLite: one more than the largest id in the table
NextId(tbl) == IF tbl = {} THEN 1 ELSE SetMax({r.id : r \in tbl}) + 1

UserByEmail_none(tbl, email) == NoUser

\* db.query(User).filter(User.email == email).first()
UserByEmail(tbl, email) ==
    IF \E u \in tbl : u.email = email
    THEN CHOOSE u \in tbl : u.email = email
    ELSE NoUser

NoteByIdAndOwner_anyOwner(tbl, id, uid) ==
    IF \E n \in tbl : n.id = id
    THEN CHOOSE n \in tbl : n.id = id
    ELSE NoNote

\* db.query(NoteDB).filter(NoteDB.id == note_id, NoteDB.user_id == user.id).first()
NoteByIdAndOwner(tbl, id, uid) ==
    IF \E n \in tbl : n.id = id /\ n.user_id = uid
    THEN CHOOSE n \in tbl : n.id = id /\ n.user_id = uid
    ELSE NoNote

NotesOfOwner_all(tbl, uid) == tbl

\* db.query(NoteDB).filter(NoteDB.user_id == user.id).all()
NotesOfOwner(tbl, uid) == {n \in tbl : n.user_id = uid}

\* users.email is unique=True: the INSERT of a second row with the email fails
EmailTaken(tbl, email) == \E u \in tbl : u.email = email

DeleteRow_keep(tbl, n) == tbl

DeleteRow_allOfOwner(tbl, n) == {m \in tbl : m.user_id # n.user_id}

\* db.delete(note); db.commit()
DeleteRow(tbl, n) == tbl \ {n}

----------------------------------------------------------------------------
(* Responses *)

Blank ==
    [op |-> "none", status |-> 0, detail |-> "", tok |-> NoTok,
     email |-> "", pw |-> "", nid |-> 0,
     notes_out |-> {}, token_out |-> NoTok, user_out |-> UserOut(NoUser)]

ProtectedOps == {"create_note", "get_notes", "get_note", "delete_note"}

\* status_code the AuthJWTException carries, by what is wrong with the token:
\* no Authorization header is 401, an unparsable header or a token that does
\* not decode (bad signature, expired) is 422
AuthJWTStatus(kind) == IF kind = "missing" THEN 401 ELSE 422

\* authjwt_exception_handler raises HTTPException(exc.status_code) from inside
\* the exception handler: depending on the framework build the raised exception
\* is handled again (the status is exc.status_code) or escapes the exception
\* middleware (500)
authjwt_exception_handler(kind) == {AuthJWTStatus(kind), 500}

\* Authorize.jwt_required() passes
jwt_required(tok) == tok.kind = "valid"

\* Authorize.get_jwt_subject()
get_jwt_subject(tok) == tok.sub

UnresolvedDetail == "AttributeError: 'NoneType' object has no attribute 'id'"

----------------------------------------------------------------------------
(* Initial state: empty tables (Base.metadata.create_all on a fresh notes.db) *)

IdleReg == [pc |-> "idle", email |-> "", pw |-> "", status |-> 0]

Init ==
    /\ users = {}
    /\ notes = {}
    /\ resp = Blank
    /\ issued = {}
    /\ created = [e \in Emails |-> 0]
    /\ removed = [e \in Emails |-> 0]
    /\ gone = {}
    /\ goneLive = {}
    /\ reg = [w \in Workers |-> IdleReg]

TotalCreated == created["a@x.com"] + created["b@x.com"]

Req(op, tok, email, pw, nid) ==
    [Blank EXCEPT !.op = op, !.tok = tok, !.email = email, !.pw = pw, !.nid = nid]

Answer(req, status, detail) == [req EXCEPT !.status = status, !.detail = detail]

\* the request is answered with an error and nothing is written
Refuse(req, status, detail) ==
    /\ resp' = Answer(req, status, detail)
    /\ UNCHANGED <<users, notes, issued, created, removed, gone, goneLive, reg>>

\* an AuthJWTException reaches authjwt_exception_handler; the handler body has
\* not read the path parameter
AuthFailure(req) ==
    \E st \in authjwt_exception_handler(req.tok.kind) :
        Refuse([req EXCEPT !.nid = 0], st, "AuthJWTException")

NewUser(tbl, email, pw, salt) ==
    [id |-> NextId(tbl), email |-> email, password_hash |-> hash_password(pw, salt)]

----------------------------------------------------------------------------
(* POST /auth/register *)

register(email, pw, salt) ==
    LET req == Req("register", NoTok, email, pw, 0)
        existing == UserByEmail(users, email)
        new == NewUser(users, email, pw, salt)
    IN  IF ~UserCreate(email, pw)
        THEN Refuse(req, 422, "validation error")
        ELSE IF existing # NoUser
        THEN Refuse(req, 400, "User with this email already exists")
        ELSE IF EmailTaken(users, email)
        THEN Refuse(req, 500, "IntegrityError")
        ELSE /\ users' = users \cup {new}
             /\ resp' = [Answer(req, 200, "") EXCEPT !.user_out = UserOut(new)]
             /\ UNCHANGED <<notes, issued, created, removed, gone, goneLive, reg>>

(* POST /auth/login *)

BadCredentials_missingUserPasses(db_user, pw) ==
    db_user # NoUser /\ ~verify_password(pw, db_user.password_hash)

\* not db_user or not verify_password(user.password, db_user.password_hash)
BadCredentials(db_user, pw) ==
    db_user = NoUser \/ ~verify_password(pw, db_user.password_hash)

login(email, pw) ==
    LET req == Req("login", NoTok, email, pw, 0)
        db_user == UserByEmail(users, email)
    IN  IF ~UserCreate(email, pw)
        THEN Refuse(req, 422, "validation error")
        ELSE IF BadCredentials(db_user, pw)
        THEN Refuse(req, 401, "Bad email or password")
        ELSE /\ resp' = [Answer(req, 200, "") EXCEPT
                            !.token_out = [kind |-> "valid", sub |-> db_user.email]]
             /\ issued' = issued \cup {db_user.email}
             /\ UNCHANGED <<users, notes, created, removed, gone, goneLive, reg>>

----------------------------------------------------------------------------
(* POST /notes/ *)

create_note(tok, title, content) ==
    LET req == Req("create_note", tok, "", "", 0)
        user == UserByEmail(users, get_jwt_subject(tok))
        db_note == [id |-> NextId(notes), title |-> title, content |-> content,
                    user_id |-> user.id]
    IN  IF tok.kind = "malformed"
        THEN AuthFailure(req)
        ELSE IF ~NoteIn(title, content)
        THEN Refuse(req, 422, "validation error")
        ELSE IF ~jwt_required(tok)
        THEN AuthFailure(req)
        ELSE IF user = NoUser
        THEN Refuse(req, 401, "Invalid user")
        ELSE /\ TotalCreated < MaxCreates
             /\ notes' = notes \cup {db_note}
             /\ resp' = [Answer(req, 200, "") EXCEPT !.notes_out = {db_note}]
             /\ created' = [created EXCEPT ![tok.sub] = @ + 1]
             /\ goneLive' = goneLive \ {<<tok.sub, db_note.id>>}
             /\ UNCHANGED <<users, issued, removed, gone, reg>>

(* GET /notes/ *)

get_notes(tok) ==
    LET req == Req("get_notes", tok, "", "", 0)
        user == UserByEmail(users, get_jwt_subject(tok))
    IN  IF ~jwt_required(tok)
        THEN AuthFailure(req)
        ELSE IF user = NoUser
        THEN Refuse(req, 500, UnresolvedDetail)
        ELSE /\ resp' = [Answer(req, 200, "") EXCEPT
                            !.notes_out = NotesOfOwner(notes, user.id)]
             /\ UNCHANGED <<users, notes, issued, created, removed, gone, goneLive, reg>>

(* GET /notes/{note_id} *)

get_note(tok, note_id) ==
    LET req == Req("get_note", tok, "", "", note_id)
        user == UserByEmail(users, get_jwt_subject(tok))
        note == NoteByIdAndOwner(notes, note_id, user.id)
    IN  IF ~jwt_required(tok)
        THEN AuthFailure(req)
        ELSE IF user = NoUser
        THEN Refuse(req, 500, UnresolvedDetail)
        ELSE IF note = NoNote
        THEN Refuse(req, 404, "Note not found")
        ELSE /\ resp' = [Answer(req, 200, "") EXCEPT !.notes_out = {note}]
             /\ UNCHANGED <<users, notes, issued, created, removed, gone, goneLive, reg>>

(* DELETE /notes/{note_id} *)

delete_note(tok, note_id) ==
    LET req == Req("delete_note", tok, "", "", note_id)
        user == UserByEmail(users, get_jwt_subject(tok))
        note == NoteByIdAndOwner(notes, note_id, user.id)
    IN  IF ~jwt_required(tok)
        THEN AuthFailure(req)
        ELSE IF user = NoUser
        THEN Refuse(req, 500, UnresolvedDetail)
        ELSE IF note = NoNote
        THEN Refuse(req, 404, "Note not found or you are not owner")
        ELSE /\ notes' = DeleteRow(notes, note)
             /\ resp' = Answer(req, 200, "Note deleted successfully")
             /\ removed' = [removed EXCEPT ![tok.sub] = @ + 1]
             /\ gone' = gone \cup {<<tok.sub, note_id>>}
             /\ goneLive' = goneLive \cup {<<tok.sub, note_id>>}
             /\ UNCHANGED <<users, issued, created, reg>>

----------------------------------------------------------------------------
(* Requests served one at a time *)

Next ==
    \/ \E e \in EmailInputs, p \in NotesPasswordInputs, s \in NotesSalts : register(e, p, s)
    \/ \E e \in EmailInputs, p \in NotesPasswordInputs : login(e, p)
    \/ \E t \in TokenInputs, ti \in TitleInputs, c \in ContentInputs : create_note(t, ti, c)
    \/ \E t \in TokenInputs : get_notes(t)
    \/ \E t \in TokenInputs, i \in NoteIds : get_note(t, i)
    \/ \E t \in TokenInputs, i \in NoteIds : delete_note(t, i)

Spec == Init /\ [][Next]_vars

(* The two auth routes over every password and salt *)

NextAuth ==
    \/ \E e \in EmailInputs, p \in PasswordInputs, s \in Salts : register(e, p, s)
    \/ \E e \in EmailInputs, p \in PasswordInputs : login(e, p)

SpecAuth == Init /\ [][NextAuth]_vars

----------------------------------------------------------------------------
(* Concurrent POST /auth/register: the handler's two store interactions *)

\* request validation, then existing = db.query(User)...first() and the 400
register_lookup(w, email, pw) ==
    /\ reg[w].pc = "idle"
    /\ LET r == [IdleReg EXCEPT !.email = email, !.pw = pw]
       IN  IF ~UserCreate(email, pw)
           THEN reg' = [reg EXCEPT ![w] = [r EXCEPT !.pc = "done", !.status = 422]]
           ELSE IF UserByEmail(users, email) # NoUser
           THEN reg' = [reg EXCEPT ![w] = [r EXCEPT !.pc = "done", !.status = 400]]
           ELSE reg' = [reg EXCEPT ![w] = [r EXCEPT !.pc = "insert"]]
    /\ UNCHANGED <<users, notes, resp, issued, created, removed, gone, goneLive>>

\* db.add(new); db.commit(): the unique index on users.email rejects the row
\* when another request has committed the email since the lookup
register_insert(w, salt) ==
    /\ reg[w].pc = "insert"
    /\ IF EmailTaken(users, reg[w].email)
       THEN /\ reg' = [reg EXCEPT ![w].pc = "done", ![w].status = 500]
            /\ UNCHANGED users
       ELSE /\ users' = users \cup {NewUser(users, reg[w].email, reg[w].pw, salt)}
            /\ reg' = [reg EXCEPT ![w].pc = "done", ![w].status = 200]
    /\ UNCHANGED <<notes, resp, issued, created, removed, gone, goneLive>>

NextConc ==
    \/ \E w \in Workers, e \in EmailInputs, p \in PasswordInputs : register_lookup(w, e, p)
    \/ \E w \in Workers, s \in Salts : register_insert(w, s)

SpecConc == Init /\ [][NextConc]_vars

----------------------------------------------------------------------------
(* Properties *)

\* the request of the step about to be answered carries a validly signed token
\* whose subject is the email of the stored user a
CalledBy(a) == resp'.tok = [kind |-> "valid", sub |-> a.email]

\* C1: for registered users A # B and a note n of B, GET /notes/{n.id} and
\* DELETE /notes/{n.id} with A's valid token answer 404 and leave n, and the
\* whole notes table, as it was.
C1_NoteIsolation ==
    [][\A a \in users, n \in notes :
          ( /\ resp'.op \in {"get_note", "delete_note"}
            /\ CalledBy(a)
            /\ resp'.nid = n.id
            /\ n.user_id # a.id
            /\ \E b \in users : b.id = n.user_id )
          => (resp'.status = 404 /\ n \in notes' /\ notes' = notes)]_vars

\* A, holding a token login issued, was refused the deletion of B's note
C1_Witness ==
    /\ resp.op = "delete_note"
    /\ resp.status = 404
    /\ resp.tok.kind = "valid"
    /\ resp.tok.sub \in issued
    /\ \E a \in users, n \in notes :
          a.email = resp.tok.sub /\ n.id = resp.nid /\ n.user_id # a.id

\* C2: GET /notes/ with U's valid token returns stored notes that all belong to
\* U, and as many of them as U's successful creations minus U's successful
\* deletions.
C2_ListIsOwnNotes ==
    (resp.op = "get_notes" /\ resp.status = 200) =>
        \E u \in users :
            /\ u.email = resp.tok.sub
            /\ resp.notes_out \subseteq notes
            /\ \A n \in resp.notes_out : n.user_id = u.id
            /\ Cardinality(resp.notes_out) = created[u.email] - removed[u.email]

\* U lists its one note while another user's note is stored
C2_Witness ==
    /\ resp.op = "get_notes"
    /\ resp.status = 200
    /\ Cardinality(resp.notes_out) = 1
    /\ notes \ resp.notes_out # {}

\* the body of the step's register or login request passes UserCreate
BodyPasses == resp'.email # BadEmail /\ Len(resp'.pw) >= MinPasswordLen

\* the step adds exactly one user, with the email of the request
AddsOneUser ==
    \E new \in users' \ users :
        /\ users' = users \cup {new}
        /\ new.email = resp'.email
        /\ \A u \in users : u.id # new.id

\* C3 as stated: a register with a stored email answers 400 and leaves users
\* unchanged; a register with an email not stored answers 200 and adds exactly
\* one user with that email.
C3_RegisterAsStated ==
    [][resp'.op = "register" =>
          IF \E u \in users : u.email = resp'.email
          THEN resp'.status = 400 /\ users' = users
          ELSE resp'.status = 200 /\ AddsOneUser]_vars

\* C3 amended: the same for a body that passes validation; a body that fails
\* validation answers 422 and leaves users unchanged.
C3_Register ==
    [][resp'.op = "register" =>
          IF ~BodyPasses
          THEN resp'.status = 422 /\ users' = users
          ELSE IF \E u \in users : u.email = resp'.email
          THEN resp'.status = 400 /\ users' = users
          ELSE resp'.status = 200 /\ AddsOneUser]_vars

\* a stored email was registered again with another password and refused
C3_Witness ==
    /\ resp.op = "register"
    /\ resp.status = 400
    /\ \E u \in users :
          /\ u.email = resp.email
          /\ u.password_hash.digest # <<u.password_hash.salt, resp.pw>>

\* the stored user the step's login request names, with a password whose
\* digest under the stored salt is the stored digest
Verifies(u) ==
    /\ u.email = resp'.email
    /\ u.password_hash.digest = <<u.password_hash.salt, resp'.pw>>

LoginIssuesOnlyToVerified ==
    /\ resp'.token_out # NoTok =>
          /\ resp'.status = 200
          /\ \E u \in users : Verifies(u) /\ resp'.token_out = [kind |-> "valid", sub |-> u.email]
    /\ users' = users
    /\ notes' = notes

C5_BadToken401 ==
    [][( /\ resp'.op \in ProtectedOps
         /\ resp'.tok.kind # "valid"
         /\ resp'.detail # "validation error" )
          => (resp'.status = 401 /\ resp'.notes_out = {} /\ notes' = notes)]_vars

\* C6 as stated: a protected route called with a valid token whose subject is
\* no stored user's email answers 401 and leaves the notes table unchanged.
C6_UnresolvedSubject401 ==
    [][( /\ resp'.op \in ProtectedOps
         /\ resp'.tok.kind = "valid"
         /\ ~\E u \in users : u.email = resp'.tok.sub
         /\ resp'.detail # "validation error" )
          => (resp'.status = 401 /\ notes' = notes)]_vars

\* C7 as stated: once the owner's DELETE of an id answered 200, every later GET
\* and DELETE of that id by that owner answers 404.
C7_DeletedStaysGoneAsStated ==
    [][( /\ resp'.op \in {"get_note", "delete_note"}
         /\ resp'.tok.kind = "valid"
         /\ <<resp'.tok.sub, resp'.nid>> \in gone )
          => resp'.status = 404]_vars

\* C7 amended: ... answers 404 until a later POST /notes/ of that owner is
\* given that id again.
C7_DeletedStaysGone ==
    [][( /\ resp'.op \in {"get_note", "delete_note"}
         /\ resp'.tok.kind = "valid"
         /\ <<resp'.tok.sub, resp'.nid>> \in goneLive )
          => resp'.status = 404]_vars

\* the owner asks for an id it deleted, which another user's note now carries
C7_Witness ==
    /\ resp.op = "get_note"
    /\ resp.status = 404
    /\ resp.tok.kind = "valid"
    /\ <<resp.tok.sub, resp.nid>> \in goneLive
    /\ \E n \in notes : n.id = resp.nid

\* C8 as stated: under concurrent register requests no two users share an
\* email, at most one request per email answers 200, and every finished
\* request with a valid body answers 200 or 400.
C8_ConcurrentRegister ==
    /\ \A u, v \in users : u.email = v.email => u = v
    /\ \A w, x \in Workers :
          ( /\ reg[w].pc = "done" /\ reg[w].status = 200
            /\ reg[x].pc = "done" /\ reg[x].status = 200
            /\ reg[w].email = reg[x].email ) => w = x
    /\ \A w \in Workers :
          (reg[w].pc = "done" /\ reg[w].status # 422) => reg[w].status \in {200, 400}

\* the stored user whose email is the subject of the step's token
CallerIs(u) == u.email = resp'.tok.sub

\* C9: users changes only by a register answered 200, which adds one user;
\* notes changes only by a create or delete answered 200, create adding one
\* note of the caller and delete removing the targeted note of the caller;
\* rows that stay are not modified; 400, 401 and 404 change neither table.
C9_Frame ==
    [][/\ users' # users => (resp'.op = "register" /\ resp'.status = 200 /\ AddsOneUser)
       /\ notes' # notes => (resp'.op \in {"create_note", "delete_note"} /\ resp'.status = 200)
       /\ (resp'.op = "create_note" /\ resp'.status = 200) =>
             \E n \in notes' \ notes, u \in users :
                 /\ notes' = notes \cup {n}
                 /\ CallerIs(u) /\ n.user_id = u.id
                 /\ \A m \in notes : m.id # n.id
       /\ (resp'.op = "delete_note" /\ resp'.status = 200) =>
             \E n \in notes, u \in users :
                 /\ notes' = notes \ {n}
                 /\ n.id = resp'.nid
                 /\ CallerIs(u) /\ n.user_id = u.id
       /\ resp'.status \in {400, 401, 404} => (users' = users /\ notes' = notes)]_vars

\* a note was deleted and another note is still stored
C9_Witness ==
    /\ resp.op = "delete_note"
    /\ resp.status = 200
    /\ notes # {}

\* C10: every subject login issued is a stored user's email, every note's
\* user_id is a stored user's id, and no list, get-one or delete request with
\* an issued token ends in the unresolved-user failure.
C10_IssuedTokensResolve ==
    /\ issued \subseteq {u.email : u \in users}
    /\ \A n \in notes : \E u \in users : u.id = n.user_id
    /\ ( /\ resp.op \in {"get_notes", "get_note", "delete_note"}
         /\ resp.tok.kind = "valid"
         /\ resp.tok.sub \in issued ) => resp.detail # UnresolvedDetail

\* a list request with an issued token returned the caller's note
C10_Witness ==
    /\ resp.op = "get_notes"
    /\ resp.tok.sub \in issued
    /\ resp.status = 200
    /\ resp.notes_out # {}
    /\ issued = Emails

====
